---------------------------- MODULE Spec2Model ----------------------------
(***************************************************************************)
(* Model of scripts/polygons/validate_self_intersections.py: the geometric *)
(* primitives (orient, on_seg, seg_intersect) and the grid-bucketed ring   *)
(* analyser deep_self_intersections, and the command line entry point main *)
(* that runs the analyser over the rings of a GeoJSON file.                *)
(*                                                                         *)
(* Coordinates are small integers.  On such inputs every float operation   *)
(* of the source is exact: float(v) is v, products and differences of      *)
(* small integers are representable, spanx / gdim divides by a power of    *)
(* two, and (x - minx) / cell_w is a correctly rounded quotient whose      *)
(* distance to the nearest integer (when it is not one) is at least        *)
(* 1 / spanx, so int() of it is the floor of the exact quotient.           *)
(*                                                                         *)
(* Indices are those of the source: edges and grid index lists are         *)
(* 0-based; a ring is a TLA+ sequence, so ring[i] of the source is         *)
(* ring[i + 1] here.                                                       *)
(***************************************************************************)
EXTENDS Integers, Sequences, FiniteSets, TLC

VARIABLES
    segArgs,        \* <<a, b, c, d>>: the arguments of a seg_intersect call
    segPc,          \* "call" before seg_intersect returns, "returned" after
    segRet,         \* its return value (FALSE until it returns)
    pc,             \* "ready": deep_self_intersections is about to be called on ring;
                    \* "returned": it has returned; "idle": no call is made
    ring,           \* the caller's list object passed to deep_self_intersections
    lring,          \* the callee's local name `ring` (rebound when the ring is closed)
    grid,           \* the callee's local `grid` of the latest call
    seen_pairs,     \* the callee's local `seen_pairs` of the latest call
    intersections,  \* the callee's local `intersections` of the latest call
    segCalls,       \* number of seg_intersect invocations made by the latest call
    ret,            \* the returned triple, as a record [inters, dur, tested]
    log,            \* one entry per completed call: [ring, inters, tested]
    mpc,            \* main: "start" before the file is read, "loop" inside the loops
                    \* over polys, "exited" after sys.exit; "idle": main does not run
    file,           \* main's input: [exists, features], a feature being a record
                    \* [gtype, coordinates]
    polys,          \* main's local `polys`
    visited,        \* the <<pi, ri>> of the loop iterations made so far, in order
    any_intersections,  \* main's local flag
    exitCode,       \* the status given to sys.exit (NoExit while main runs)
    gdimM,          \* an edge count m for which line 75 computes gdim
    gdimPc,         \* "call" before gdim is computed, "returned" after
    gdimRet         \* the gdim computed (NoGDim before)

vars == <<segArgs, segPc, segRet, pc, ring, lring, grid, seen_pairs, intersections,
          segCalls, ret, log, mpc, file, polys, visited, any_intersections, exitCode,
          gdimM, gdimPc, gdimRet>>

segVars == <<segArgs, segPc, segRet>>
ringVars == <<pc, ring, lring, grid, seen_pairs, intersections, segCalls, ret, log>>
mainVars == <<mpc, file, polys, visited, any_intersections, exitCode>>
gdimVars == <<gdimM, gdimPc, gdimRet>>

---------------------------------------------------------------------------
(* Bounds of the model *)

\* coordinates of enumerated points are 0..MaxCoord
MaxCoord == 1
\* enumerated rings have 1..MaxPts points
MaxPts == 3
\* the elapsed time of the pair loop is 0..MaxDur clock ticks
MaxDur == 1
\* number of calls in a sequence of calls
MaxCalls == 3

Coords == 0..MaxCoord
Points == Coords \X Coords

\* coordinates of the points given to seg_intersect are 0..MaxSegCoord
MaxSegCoord == 3
SegPoints == (0..MaxSegCoord) \X (0..MaxSegCoord)

---------------------------------------------------------------------------
(* Helpers *)

Abs(v) == IF v < 0 THEN -v ELSE v
Min2(x, y) == IF x <= y THEN x ELSE y
Max2(x, y) == IF x >= y THEN x ELSE y
SetMin(S) == CHOOSE x \in S : \A y \in S : x <= y
SetMax(S) == CHOOSE x \in S : \A y \in S : x >= y

\* v <= EPS, with EPS = 1e-12 and v an integer: 0 < EPS < 1, so v <= EPS iff v <= 0
LeqEPS(v) == v <= 0

---------------------------------------------------------------------------
(* Geometric primitives *)

(* Double arithmetic.  The coordinates of the model are integers below 2^27, so  *)
(* the differences of line 32 are exact; a product of two of them can exceed    *)
(* 2^53 and is then rounded to 53 significant bits, to nearest, ties to even,   *)
(* and so is the difference of the two products.  An integer-valued double is   *)
(* written [neg, h, l] for the value (-1)^neg * (h * 2^28 + l), 0 <= l < 2^28.  *)
Two14 == 16384
Two25 == 33554432
Two28 == 268435456

\* the number of low bits that do not fit into 53 significant bits
RECURSIVE ExcessBits(_)
ExcessBits(h) == IF h < Two25 THEN 0 ELSE 1 + ExcessBits(h \div 2)

RECURSIVE Pow2(_)
Pow2(k) == IF k = 0 THEN 1 ELSE 2 * Pow2(k - 1)

\* h * 2^28 + l rounded to 53 significant bits, to nearest, ties to even
RoundMag(h, l) ==
    LET q    == Pow2(ExcessBits(h))
        r    == l % q
        base == l - r
        up   == 2 * r > q \/ (2 * r = q /\ (base \div q) % 2 = 1)
        l2   == IF up THEN base + q ELSE base
    IN  IF l2 = Two28 THEN [h |-> h + 1, l |-> 0] ELSE [h |-> h, l |-> l2]

\* the exact product of 0 <= x, y < 2^28, as h * 2^28 + l
MulMag(x, y) ==
    LET x1   == x \div Two14
        x0   == x % Two14
        y1   == y \div Two14
        y0   == y % Two14
        mid  == x1 * y0 + x0 * y1
        lraw == (mid % Two14) * Two14 + x0 * y0
    IN  [h |-> x1 * y1 + (mid \div Two14) + (lraw \div Two28), l |-> lraw % Two28]

Signed(neg, mag) == [neg |-> neg /\ (mag.h # 0 \/ mag.l # 0), h |-> mag.h, l |-> mag.l]

\* x * y of two integer-valued doubles of magnitude below 2^28
MulD(x, y) ==
    LET mag == MulMag(Abs(x), Abs(y))
    IN  Signed((x < 0) # (y < 0), RoundMag(mag.h, mag.l))

MagLess(p, q) == p.h < q.h \/ (p.h = q.h /\ p.l < q.l)

\* p + q
AddD(p, q) ==
    IF p.neg = q.neg
    THEN LET lraw == p.l + q.l
             h    == p.h + q.h + (lraw \div Two28)
         IN  Signed(p.neg, RoundMag(h, lraw % Two28))
    ELSE LET big   == IF MagLess(p, q) THEN q ELSE p
             small == IF MagLess(p, q) THEN p ELSE q
             borrow == IF big.l < small.l THEN 1 ELSE 0
             l     == big.l - small.l + borrow * Two28
             h     == big.h - small.h - borrow
         IN  Signed(big.neg, RoundMag(h, l))

NegD(p) == Signed(~p.neg, p)

\* p - q
SubD(p, q) == AddD(p, NegD(q))

\* line 32 as the doubles compute it
orient_double(a, b, c) ==
    SubD(MulD(b[1] - a[1], c[2] - a[2]), MulD(b[2] - a[2], c[1] - a[1]))

\* an integer with the sign of the double p, equal to it when it is below 2^28
AsInteger(p) ==
    LET v == IF p.h = 0 THEN p.l ELSE Two28
    IN  IF p.neg THEN 0 - v ELSE v

\* no product of line 32 needs rounding when the coordinates are below 2^14
Narrow(a, b, c) ==
    \A v \in {a[1], a[2], b[1], b[2], c[1], c[2]} : v < Two14

\* orient: its value when that is below 2^28 in magnitude, and otherwise 2^28 with its
\* sign (seg_intersect and on_seg use it only through o > 0 and abs(o) <= EPS)
orient(a, b, c) ==
    IF Narrow(a, b, c)
    THEN (b[1] - a[1]) * (c[2] - a[2]) - (b[2] - a[2]) * (c[1] - a[1])
    ELSE AsInteger(orient_double(a, b, c))

\* mutant of on_seg: collinearity alone, without the bounding-box test
on_seg_collinear_only(a, b, p) == LeqEPS(Abs(orient(a, b, p)))

\* mutant of on_seg: the bounding-box test alone, without the orientation test
on_seg_box_only(a, b, p) ==
    /\ LeqEPS(Min2(a[1], b[1]) - p[1])
    /\ LeqEPS(p[1] - Max2(a[1], b[1]))
    /\ LeqEPS(Min2(a[2], b[2]) - p[2])
    /\ LeqEPS(p[2] - Max2(a[2], b[2]))

on_seg(a, b, p) ==
    IF ~LeqEPS(Abs(orient(a, b, p)))
    THEN FALSE
    ELSE /\ LeqEPS(Min2(a[1], b[1]) - p[1])
         /\ LeqEPS(p[1] - Max2(a[1], b[1]))
         /\ LeqEPS(Min2(a[2], b[2]) - p[2])
         /\ LeqEPS(p[2] - Max2(a[2], b[2]))

\* mutant of ProperCross: o3 and o4 are not looked at
ProperCrossFirstPairOnly(o1, o2, o3, o4) == (o1 > 0) # (o2 > 0)

\* the first test of seg_intersect (line 44)
ProperCross(o1, o2, o3, o4) == ((o1 > 0) # (o2 > 0)) /\ ((o3 > 0) # (o4 > 0))

\* mutant of Fallbacks: the checks of a and b against c-d are missing
FallbacksFirstTwo(a, b, c, d, o1, o2, o3, o4) ==
    \/ LeqEPS(Abs(o1)) /\ on_seg(a, b, c)
    \/ LeqEPS(Abs(o2)) /\ on_seg(a, b, d)

\* the four checks that follow the first test (lines 46-54)
Fallbacks(a, b, c, d, o1, o2, o3, o4) ==
    IF LeqEPS(Abs(o1)) /\ on_seg(a, b, c) THEN TRUE
    ELSE IF LeqEPS(Abs(o2)) /\ on_seg(a, b, d) THEN TRUE
    ELSE IF LeqEPS(Abs(o3)) /\ on_seg(c, d, a) THEN TRUE
    ELSE IF LeqEPS(Abs(o4)) /\ on_seg(c, d, b) THEN TRUE
    ELSE FALSE

seg_intersect(a, b, c, d) ==
    LET o1 == orient(a, b, c)
        o2 == orient(a, b, d)
        o3 == orient(c, d, a)
        o4 == orient(c, d, b)
    IN  IF ProperCross(o1, o2, o3, o4) THEN TRUE
        ELSE Fallbacks(a, b, c, d, o1, o2, o3, o4)

---------------------------------------------------------------------------
(* deep_self_intersections: closing, edges, bounding box, grid *)

\* mutant of ClosedRing: the first point is appended whether or not the ring is closed
AlwaysClosed(r) == r \o <<r[1]>>

\* `if ring[0] != ring[-1]: ring = ring + [ring[0]]`: the local name is rebound
\* to a new list; a ring whose ends are equal is kept as it is
ClosedRing(r) == IF r[1] # r[Len(r)] THEN r \o <<r[1]>> ELSE r

\* m = n - 1
EdgeCount(lr) == Len(lr) - 1

\* mutant of SmallRing: the threshold is off by one
SmallRingOffByOne(m) == m <= 2

\* the early return `if m <= 3`
SmallRing(m) == m <= 3

\* edges[i] = (ring[i], ring[i+1]) for i in range(m); float() of a small integer is that integer
EdgesOf(lr, m) == [i \in 0..(m - 1) |-> <<lr[i + 1], lr[i + 2]>>]

\* xs and ys collect both endpoints of every edge; only their min and max are used
BBox(edges) ==
    LET xs == UNION {{edges[i][1][1], edges[i][2][1]} : i \in DOMAIN edges}
        ys == UNION {{edges[i][1][2], edges[i][2][2]} : i \in DOMAIN edges}
    IN  [minx |-> SetMin(xs), maxx |-> SetMax(xs), miny |-> SetMin(ys), maxy |-> SetMax(ys)]

\* max(hi - lo, 1e-9): hi - lo is a non-negative integer, so the substitute span is
\* taken exactly when hi = lo; it is written 0 here and resolved in CellRaw
Span(lo, hi) == hi - lo

GDimMin == 16
GDimMax == 256

\* int(math.sqrt(m))
ISqrt(m) == CHOOSE k \in 0..m : k * k <= m /\ (k + 1) * (k + 1) > m

\* mutant of GDim: the square root is rounded up
GDimRoundedUp(m) ==
    LET s == ISqrt(m)
    IN  Max2(GDimMin, Min2(GDimMax, IF s * s = m THEN s ELSE s + 1))

GDim(m) == Max2(GDimMin, Min2(GDimMax, ISqrt(m)))

\* mutant of CellRaw: on an axis without extent the last cell is taken
CellRawLastWhenFlat(v, lo, span, gdim) ==
    IF span = 0 THEN gdim - 1 ELSE (gdim * (v - lo)) \div span

\* int((v - lo) / cell) with cell = span / gdim.  With the substitute span 1e-9 every
\* coordinate on that axis equals lo, and 0 / cell is 0
CellRaw(v, lo, span, gdim) == IF span = 0 THEN 0 ELSE (gdim * (v - lo)) \div span

\* mutant of Clamp: the index is not capped at gdim - 1
ClampLowOnly(ix, gdim) == Max2(0, ix)

\* max(0, min(gdim - 1, ix))
Clamp(ix, gdim) == Max2(0, Min2(gdim - 1, ix))

\* mutant of cell_indices_for_edge: only the cells of the two corners of the bounding
\* box are yielded, not the cells between them
cell_indices_corners_only(a, b, box, gdim) ==
    LET spanx == Span(box.minx, box.maxx)
        spany == Span(box.miny, box.maxy)
        ix0 == Clamp(CellRaw(Min2(a[1], b[1]), box.minx, spanx, gdim), gdim)
        ix1 == Clamp(CellRaw(Max2(a[1], b[1]), box.minx, spanx, gdim), gdim)
        iy0 == Clamp(CellRaw(Min2(a[2], b[2]), box.miny, spany, gdim), gdim)
        iy1 == Clamp(CellRaw(Max2(a[2], b[2]), box.miny, spany, gdim), gdim)
    IN  IF ix0 = ix1 /\ iy0 = iy1 THEN <<<<ix0, iy0>>>> ELSE <<<<ix0, iy0>>, <<ix1, iy1>>>>

\* the keys yielded for an edge, in the order they are yielded (ix outer, iy inner)
cell_indices_for_edge(a, b, box, gdim) ==
    LET spanx == Span(box.minx, box.maxx)
        spany == Span(box.miny, box.maxy)
        ix0 == Clamp(CellRaw(Min2(a[1], b[1]), box.minx, spanx, gdim), gdim)
        ix1 == Clamp(CellRaw(Max2(a[1], b[1]), box.minx, spanx, gdim), gdim)
        iy0 == Clamp(CellRaw(Min2(a[2], b[2]), box.miny, spany, gdim), gdim)
        iy1 == Clamp(CellRaw(Max2(a[2], b[2]), box.miny, spany, gdim), gdim)
        h == iy1 - iy0 + 1
        w == ix1 - ix0 + 1
    IN  [n \in 1..(w * h) |-> <<ix0 + ((n - 1) \div h), iy0 + ((n - 1) % h)>>]

\* `grid = {}` (a dict keeps its keys in insertion order)
NewGrid == [built |-> TRUE, keys |-> <<>>, cells |-> <<>>]

\* the grid of a call that returned before line 78
NoGrid == [built |-> FALSE, keys |-> <<>>, cells |-> <<>>]

\* mutant of InsertEdge: the index is put at the front of the lists
InsertEdgeAtFront(g, i, cellSeq) ==
    LET cs == {cellSeq[n] : n \in DOMAIN cellSeq}
        old == DOMAIN g.cells
    IN  [built |-> g.built,
         keys  |-> g.keys \o SelectSeq(cellSeq, LAMBDA k : k \notin old),
         cells |-> [k \in old \cup cs |->
                      IF k \in cs
                      THEN <<i>> \o (IF k \in old THEN g.cells[k] ELSE <<>>)
                      ELSE g.cells[k]]]

\* `for key in cell_indices_for_edge(a, b): grid.setdefault(key, []).append(i)` for one edge
InsertEdge(g, i, cellSeq) ==
    LET cs == {cellSeq[n] : n \in DOMAIN cellSeq}
        old == DOMAIN g.cells
    IN  [built |-> g.built,
         keys  |-> g.keys \o SelectSeq(cellSeq, LAMBDA k : k \notin old),
         cells |-> [k \in old \cup cs |->
                      IF k \in cs
                      THEN Append(IF k \in old THEN g.cells[k] ELSE <<>>, i)
                      ELSE g.cells[k]]]

\* `for i, (a, b) in enumerate(edges)`: edges i..m-1 inserted into g
RECURSIVE BuildGrid(_, _, _, _, _, _)
BuildGrid(g, edges, i, m, box, gdim) ==
    IF i >= m THEN g
    ELSE BuildGrid(InsertEdge(g, i, cell_indices_for_edge(edges[i][1], edges[i][2], box, gdim)),
                   edges, i + 1, m, box, gdim)

---------------------------------------------------------------------------
(* deep_self_intersections: the pair loop *)

\* mutant of NewSeenPairs: the set of the previous activation is used again
StaleSeenPairs == seen_pairs

\* `seen_pairs = set()`
NewSeenPairs == {}

\* `intersections = []`
NewIntersections == <<>>

\* mutant of Adjacent: the wraparound pair is not excluded
AdjacentNoWrap(i, j, m) == j = i \/ j = i + 1 \/ i = j + 1

\* mutant of Adjacent: the pair (i, i + 1) is not excluded
AdjacentNoNext(i, j, m) == j = i \/ i = j + 1 \/ (i = 0 /\ j = m - 1)

\* mutant of Adjacent: edges two apart are excluded as well
AdjacentTwoApart(i, j, m) ==
    j = i \/ j = i + 1 \/ i = j + 1 \/ (i = 0 /\ j = m - 1) \/ j = i + 2

\* the adjacency test of line 107
Adjacent(i, j, m) == j = i \/ j = i + 1 \/ i = j + 1 \/ (i = 0 /\ j = m - 1)

\* keypair = (i, j) if i < j else (j, i)
KeyPair(i, j) == IF i < j THEN <<i, j>> ELSE <<j, i>>

\* mutant of PairStep: no test against seen_pairs
PairStepNoDedup(st, i, j, edges, m) ==
    IF Adjacent(i, j, m) THEN st
    ELSE [seen   |-> st.seen \cup {KeyPair(i, j)},
          inters |-> IF seg_intersect(edges[i][1], edges[i][2], edges[j][1], edges[j][2])
                     THEN Append(st.inters, <<i, j, edges[i][1], edges[i][2], edges[j][1], edges[j][2]>>)
                     ELSE st.inters,
          calls  |-> st.calls + 1]

\* mutant of PairStep: the pair is recorded in seen_pairs before the adjacency test
PairStepCountFirst(st, i, j, edges, m) ==
    IF KeyPair(i, j) \in st.seen THEN st
    ELSE IF Adjacent(i, j, m) THEN [st EXCEPT !.seen = st.seen \cup {KeyPair(i, j)}]
    ELSE [seen   |-> st.seen \cup {KeyPair(i, j)},
          inters |-> IF seg_intersect(edges[i][1], edges[i][2], edges[j][1], edges[j][2])
                     THEN Append(st.inters, <<i, j, edges[i][1], edges[i][2], edges[j][1], edges[j][2]>>)
                     ELSE st.inters,
          calls  |-> st.calls + 1]

\* mutant of PairStep: edges that share an endpoint are skipped as adjacent
PairStepSharedEndpoint(st, i, j, edges, m) ==
    IF Adjacent(i, j, m) \/ {edges[i][1], edges[i][2]} \cap {edges[j][1], edges[j][2]} # {}
    THEN st
    ELSE IF KeyPair(i, j) \in st.seen THEN st
    ELSE [seen   |-> st.seen \cup {KeyPair(i, j)},
          inters |-> IF seg_intersect(edges[i][1], edges[i][2], edges[j][1], edges[j][2])
                     THEN Append(st.inters, <<i, j, edges[i][1], edges[i][2], edges[j][1], edges[j][2]>>)
                     ELSE st.inters,
          calls  |-> st.calls + 1]

\* mutant of PairStep: seg_intersect is invoked before the test against seen_pairs
PairStepCallFirst(st, i, j, edges, m) ==
    IF Adjacent(i, j, m) THEN st
    ELSE IF KeyPair(i, j) \in st.seen THEN [st EXCEPT !.calls = st.calls + 1]
    ELSE [seen   |-> st.seen \cup {KeyPair(i, j)},
          inters |-> IF seg_intersect(edges[i][1], edges[i][2], edges[j][1], edges[j][2])
                     THEN Append(st.inters, <<i, j, edges[i][1], edges[i][2], edges[j][1], edges[j][2]>>)
                     ELSE st.inters,
          calls  |-> st.calls + 1]

\* the body of the inner loop for one (i, j); st = [seen, inters, calls], where calls
\* counts the invocations of seg_intersect
PairStep(st, i, j, edges, m) ==
    IF Adjacent(i, j, m) THEN st
    ELSE IF KeyPair(i, j) \in st.seen THEN st
    ELSE LET a == edges[i][1]
             b == edges[i][2]
             c == edges[j][1]
             d == edges[j][2]
         IN  [seen   |-> st.seen \cup {KeyPair(i, j)},
              inters |-> IF seg_intersect(a, b, c, d)
                         THEN Append(st.inters, <<i, j, a, b, c, d>>)
                         ELSE st.inters,
              calls  |-> st.calls + 1]

\* `for ii in range(L): for jj in range(ii + 1, L)` from position (ii, jj) on
RECURSIVE PairsInCell(_, _, _, _, _, _)
PairsInCell(st, idxs, ii, jj, edges, m) ==
    IF ii >= Len(idxs) THEN st
    ELSE IF jj >= Len(idxs) THEN PairsInCell(st, idxs, ii + 1, ii + 2, edges, m)
    ELSE PairsInCell(PairStep(st, idxs[ii + 1], idxs[jj + 1], edges, m),
                     idxs, ii, jj + 1, edges, m)

\* mutant of CellStep: the pairs already seen are forgotten from one cell to the next
CellStepSeenPerCell(st, g, k, edges, m) ==
    LET idxs == g.cells[g.keys[k]]
    IN  IF Len(idxs) < 2 THEN st
        ELSE PairsInCell([st EXCEPT !.seen = {}], idxs, 0, 1, edges, m)

\* the body of `for key, idxs in grid.items()` for the k-th key
CellStep(st, g, k, edges, m) ==
    LET idxs == g.cells[g.keys[k]]
    IN  IF Len(idxs) < 2 THEN st ELSE PairsInCell(st, idxs, 0, 1, edges, m)

\* `for key, idxs in grid.items()` over the keys lo..hi in insertion order (the
\* range is halved only to keep the evaluation shallow; the order is lo, lo+1, ..., hi)
RECURSIVE CellLoop(_, _, _, _, _, _)
CellLoop(st, g, lo, hi, edges, m) ==
    IF lo > hi THEN st
    ELSE IF lo = hi THEN CellStep(st, g, lo, edges, m)
    ELSE LET mid  == (lo + hi) \div 2
             half == CellLoop(st, g, lo, mid, edges, m)
         IN  IF half.calls >= 0   \* always true: evaluates the first half before the second
             THEN CellLoop(half, g, mid + 1, hi, edges, m)
             ELSE half

\* One activation of deep_self_intersections on r: the values of its locals when it
\* returns.  seen0 and inters0 are the values lines 96-97 bind.
Activation(r, seen0, inters0) ==
    LET lr == ClosedRing(r)
        m  == EdgeCount(lr)
    IN  IF SmallRing(m)
        THEN [early |-> TRUE, lring |-> lr, m |-> m, grid |-> NoGrid,
              seen |-> {}, inters |-> <<>>, calls |-> 0]
        ELSE LET edges == EdgesOf(lr, m)
                 g     == BuildGrid(NewGrid, edges, 0, m, BBox(edges), GDim(m))
                 st    == CellLoop([seen |-> seen0, inters |-> inters0, calls |-> 0],
                                   g, 1, Len(g.keys), edges, m)
             IN  [early |-> FALSE, lring |-> lr, m |-> m, grid |-> g,
                  seen |-> st.seen, inters |-> st.inters, calls |-> st.calls]

\* the elapsed times `time.time() - start` may give, in clock ticks; 0.0 on the early return
Durations(early) == IF early THEN {0} ELSE 0..MaxDur

\* mutant of Returned: the count returned is the number of records
ReturnedCountRecords(act, dur) ==
    IF act.early
    THEN [inters |-> <<>>, dur |-> 0, tested |-> 0]
    ELSE [inters |-> act.inters, dur |-> dur, tested |-> Len(act.inters)]

\* `return [], 0.0, 0` and `return intersections, dur, len(seen_pairs)`
Returned(act, dur) ==
    IF act.early
    THEN [inters |-> <<>>, dur |-> 0, tested |-> 0]
    ELSE [inters |-> act.inters, dur |-> dur, tested |-> Cardinality(act.seen)]

\* mutant of CallerRing: the first point is appended to the caller's list in place
CallerRingAppended(r) == IF r[1] # r[Len(r)] THEN r \o <<r[1]>> ELSE r

\* the caller's list after the call: `ring + [ring[0]]` builds a new list
CallerRing(r) == r

\* a call deep_self_intersections(r), from call to return
Call(r) ==
    /\ \E act \in {Activation(r, NewSeenPairs, NewIntersections)} :
           /\ lring' = act.lring
           /\ grid' = act.grid
           /\ seen_pairs' = act.seen
           /\ intersections' = act.inters
           /\ segCalls' = act.calls
           /\ \E dur \in Durations(act.early) : ret' = Returned(act, dur)
    /\ ring' = CallerRing(r)
    /\ log' = Append(log, [ring |-> r, inters |-> ret'.inters, tested |-> ret'.tested])
    /\ pc' = "returned"

\* deep_self_intersections(ring) called on the ring the caller holds
Analyze ==
    /\ pc = "ready"
    /\ Call(ring)
    /\ UNCHANGED <<gdimVars, segVars, mainVars>>

---------------------------------------------------------------------------
(* Inputs *)

\* every ring of 1..MaxPts lattice points
LatticeRings == UNION {[1..n -> Points] : n \in 1..MaxPts}

\* the examples of the specification's section 8
FigureEight == <<<<0, 0>>, <<2, 2>>, <<0, 2>>, <<2, 0>>>>
Bowtie == <<<<0, 0>>, <<2, 2>>, <<2, 0>>, <<0, 2>>>>
Square == <<<<0, 0>>, <<4, 0>>, <<4, 4>>, <<0, 4>>>>

\* further shapes: a triangle, a vertex lying on a non-adjacent edge, a flat ring with
\* overlapping edges, a concave star-shaped quadrilateral, a square with a vertex given
\* twice, a convex pentagon and a pentagram
Triangle == <<<<0, 0>>, <<2, 0>>, <<0, 2>>>>
TJunction == <<<<0, 0>>, <<2, 0>>, <<1, 0>>, <<1, 1>>>>
Flat == <<<<0, 0>>, <<2, 0>>, <<1, 0>>, <<3, 0>>>>
Dart == <<<<0, 0>>, <<2, 1>>, <<4, 0>>, <<2, 4>>>>
DupVertex == <<<<0, 0>>, <<2, 0>>, <<2, 0>>, <<2, 2>>, <<0, 2>>>>
Pentagon == <<<<1, 0>>, <<3, 0>>, <<4, 2>>, <<2, 4>>, <<0, 2>>>>
Pentagram == <<<<1, 0>>, <<4, 2>>, <<0, 2>>, <<3, 0>>, <<2, 4>>>>

Shapes == {FigureEight, Bowtie, Square, Triangle, TJunction, Flat, Dart, DupVertex,
           Pentagon, Pentagram}

\* a ring as given with its first point repeated at the end
Repeated(r) == r \o <<r[1]>>

\* the same ring started at another of its points, or given in the other direction
Rotations(r) ==
    {[n \in 1..Len(r) |-> r[((n - 1 + k) % Len(r)) + 1]] : k \in 0..(Len(r) - 1)}
Reversed(r) == [n \in 1..Len(r) |-> r[Len(r) + 1 - n]]

ShapeRings == UNION {Rotations(r) \cup Rotations(Reversed(r)) : r \in Shapes}

Rings ==
    LET open == LatticeRings \cup ShapeRings
    IN  open \cup {Repeated(r) : r \in open}

SegIdle ==
    /\ segArgs = <<<<0, 0>>, <<0, 0>>, <<0, 0>>, <<0, 0>>>>
    /\ segPc = "returned"
    /\ segRet = TRUE

\* the value of gdimRet while gdim has not been computed
NoGDim == 0

GDimIdle ==
    /\ gdimM = 4
    /\ gdimPc = "returned"
    /\ gdimRet = GDimMin

\* the value of exitCode while sys.exit has not been called
NoExit == -1

NoFile == [exists |-> FALSE, features |-> <<>>]

MainIdle ==
    /\ mpc = "idle"
    /\ file = NoFile
    /\ polys = <<>>
    /\ visited = <<>>
    /\ any_intersections = FALSE
    /\ exitCode = NoExit

---------------------------------------------------------------------------
(* Specification Spec: one call of deep_self_intersections on every ring *)

Init ==
    /\ SegIdle
    /\ GDimIdle
    /\ MainIdle
    /\ pc = "ready"
    /\ ring \in Rings
    /\ lring = <<>>
    /\ grid = NoGrid
    /\ seen_pairs = {}
    /\ intersections = <<>>
    /\ segCalls = 0
    /\ ret = [inters |-> <<>>, dur |-> 0, tested |-> 0]
    /\ log = <<>>

Next == Analyze

Spec == Init /\ [][Next]_vars

---------------------------------------------------------------------------
(* Specification SpecSeg: seg_intersect applied to every 4-tuple of points *)

InitRingIdle ==
    /\ pc = "idle"
    /\ ring = <<>>
    /\ lring = <<>>
    /\ grid = NoGrid
    /\ seen_pairs = {}
    /\ intersections = <<>>
    /\ segCalls = 0
    /\ ret = [inters |-> <<>>, dur |-> 0, tested |-> 0]
    /\ log = <<>>

InitSeg ==
    /\ segArgs \in SegPoints \X SegPoints \X SegPoints \X SegPoints
    /\ segPc = "call"
    /\ segRet = FALSE
    /\ InitRingIdle
    /\ MainIdle
    /\ GDimIdle

SegCall ==
    /\ segPc = "call"
    /\ segPc' = "returned"
    /\ segRet' = seg_intersect(segArgs[1], segArgs[2], segArgs[3], segArgs[4])
    /\ UNCHANGED <<gdimVars, segArgs, ringVars, mainVars>>

NextSeg == SegCall

SpecSeg == InitSeg /\ [][NextSeg]_vars

---------------------------------------------------------------------------
(* Specification SpecCalls: up to MaxCalls successive calls of              *)
(* deep_self_intersections on rings of a small catalogue.  Between two      *)
(* calls the variables of the callee keep what the previous activation      *)
(* left in them.                                                            *)

Catalogue == {FigureEight, Bowtie, Square, Triangle, TJunction, Repeated(FigureEight)}

InitCalls ==
    /\ SegIdle
    /\ GDimIdle
    /\ MainIdle
    /\ pc = "ready"
    /\ ring \in Catalogue
    /\ lring = <<>>
    /\ grid = NoGrid
    /\ seen_pairs = {}
    /\ intersections = <<>>
    /\ segCalls = 0
    /\ ret = [inters |-> <<>>, dur |-> 0, tested |-> 0]
    /\ log = <<>>

\* the caller passes another ring to the next call
NextCall ==
    /\ pc = "returned"
    /\ Len(log) < MaxCalls
    /\ \E r \in Catalogue : ring' = r
    /\ pc' = "ready"
    /\ UNCHANGED <<gdimVars, segVars, mainVars, lring, grid, seen_pairs, intersections,
                   segCalls, ret, log>>

NextCalls == Analyze \/ NextCall

SpecCalls == InitCalls /\ [][NextCalls]_vars

---------------------------------------------------------------------------
(* Specification SpecMain: main run on a GeoJSON file.  The first feature   *)
(* is a Polygon of up to MaxRingsPerPoly rings, a MultiPolygon of up to     *)
(* MaxPolys such polygons and MaxRings rings in all, or a geometry of       *)
(* another or of no type; up to MaxFeatures - 1 one-ring polygons follow    *)
(* it.                                                                      *)

MaxFeatures == 2
MaxPolys == 2
MaxRingsPerPoly == 2
MaxRings == 3

\* a simple ring and a ring whose edges overlap
MainRings == {Square, Flat}

RingLists == UNION {[1..n -> MainRings] : n \in 0..MaxRingsPerPoly}
RECURSIVE RingCount(_)
RingCount(ps) == IF ps = <<>> THEN 0 ELSE Len(Head(ps)) + RingCount(Tail(ps))
PolyLists ==
    {ps \in UNION {[1..n -> RingLists] : n \in 0..MaxPolys} : RingCount(ps) <= MaxRings}

\* "none": the geometry has no "type" member
FirstFeatures ==
    {[gtype |-> "Polygon", coordinates |-> rs] : rs \in RingLists}
        \cup {[gtype |-> "MultiPolygon", coordinates |-> ps] : ps \in PolyLists}
        \cup {[gtype |-> t, coordinates |-> <<>>] : t \in {"Point", "none"}}

LaterFeatures == {[gtype |-> "Polygon", coordinates |-> <<r>>] : r \in MainRings}

FeatureLists ==
    {<<>>} \cup
    {<<f>> \o rest : f \in FirstFeatures,
                     rest \in UNION {[1..n -> LaterFeatures] : n \in 0..(MaxFeatures - 1)}}

Files == {NoFile} \cup {[exists |-> TRUE, features |-> fs] : fs \in FeatureLists}

\* mutant of ReadGeometry: the last feature is read
ReadsLastFeature(features) == features[Len(features)]

\* the geometry main reads: that of features[0]
ReadGeometry(features) == features[1]

\* mutant of Supported: a MultiPolygon is rejected
SupportsPolygonOnly(gtype) == gtype = "Polygon"
Supported(gtype) == gtype \in {"Polygon", "MultiPolygon"}

\* polys: a Polygon's coordinates wrapped in a list, a MultiPolygon's coordinates
PolysOf(geom) ==
    IF geom.gtype = "Polygon" THEN <<geom.coordinates>> ELSE geom.coordinates

\* the <<pi, ri>> of the nested loops over polys[pi .. ], in the order of execution
RECURSIVE Iterations(_, _)
Iterations(ps, pi) ==
    IF pi >= Len(ps) THEN <<>>
    ELSE [n \in 1..Len(ps[pi + 1]) |-> <<pi, n - 1>>] \o Iterations(ps, pi + 1)

\* mutant of Flag: the flag is that of the latest ring
FlagOfLastRing(flag, inters) == inters # <<>>

\* any_intersections after a ring whose result is inters
Flag(flag, inters) == flag \/ inters # <<>>

ExitStatus(flag) == IF flag THEN 1 ELSE 0

InitMain ==
    /\ SegIdle
    /\ GDimIdle
    /\ InitRingIdle
    /\ mpc = "start"
    /\ file \in Files
    /\ polys = <<>>
    /\ visited = <<>>
    /\ any_intersections = FALSE
    /\ exitCode = NoExit

\* main up to the loops: the file is read and polys is built, or main exits
MainStart ==
    /\ mpc = "start"
    /\ IF ~file.exists
       THEN mpc' = "exited" /\ exitCode' = 2 /\ polys' = polys
       ELSE IF file.features = <<>>
       THEN mpc' = "exited" /\ exitCode' = 0 /\ polys' = polys
       ELSE LET geom == ReadGeometry(file.features) IN
            IF Supported(geom.gtype)
            THEN mpc' = "loop" /\ polys' = PolysOf(geom) /\ exitCode' = exitCode
            ELSE mpc' = "exited" /\ exitCode' = 2 /\ polys' = polys
    /\ UNCHANGED <<gdimVars, segVars, ringVars, file, visited, any_intersections>>

\* one iteration of the inner loop: the ring is analysed and the flag updated
MainIteration ==
    /\ mpc = "loop"
    /\ Len(visited) < Len(Iterations(polys, 0))
    /\ LET it == Iterations(polys, 0)[Len(visited) + 1] IN
           /\ Call(polys[it[1] + 1][it[2] + 1])
           /\ visited' = Append(visited, it)
    /\ any_intersections' = Flag(any_intersections, ret'.inters)
    /\ UNCHANGED <<gdimVars, segVars, mpc, file, polys, exitCode>>

\* the loops are over: sys.exit(1 if any_intersections else 0)
MainExit ==
    /\ mpc = "loop"
    /\ Len(visited) = Len(Iterations(polys, 0))
    /\ mpc' = "exited"
    /\ exitCode' = ExitStatus(any_intersections)
    /\ UNCHANGED <<gdimVars, segVars, ringVars, file, polys, visited, any_intersections>>

NextMain == MainStart \/ MainIteration \/ MainExit

SpecMain == InitMain /\ [][NextMain]_vars

---------------------------------------------------------------------------
(* Specification SpecGDim: the grid resolution of line 75 computed for      *)
(* every edge count m from 4 (the least that reaches line 75) to MaxEdges.  *)

MaxEdges == 65600

InitGDim ==
    /\ SegIdle
    /\ InitRingIdle
    /\ MainIdle
    /\ gdimM \in 4..MaxEdges
    /\ gdimPc = "call"
    /\ gdimRet = NoGDim

GDimCall ==
    /\ gdimPc = "call"
    /\ gdimPc' = "returned"
    /\ gdimRet' = GDim(gdimM)
    /\ UNCHANGED <<gdimM, segVars, ringVars, mainVars>>

NextGDim == GDimCall

SpecGDim == InitGDim /\ [][NextGDim]_vars

---------------------------------------------------------------------------
(* Specification SpecGrid: one call of deep_self_intersections on every     *)
(* ring of Spec and on rings that exercise the grid: rings whose points     *)
(* share their x, their y or both, a ring with a point given twice in a     *)
(* row, and rings whose extent is not a divisor of the grid dimension.      *)

Upright == <<<<0, 0>>, <<0, 2>>, <<0, 1>>, <<0, 3>>>>
Dot == <<<<1, 1>>, <<1, 1>>, <<1, 1>>, <<1, 1>>>>
Kite == <<<<0, 1>>, <<3, 0>>, <<5, 1>>, <<3, 3>>>>
Hexagon == <<<<1, 0>>, <<3, 0>>, <<4, 1>>, <<3, 3>>, <<1, 3>>, <<0, 1>>>>
DupFirst == <<<<0, 0>>, <<0, 0>>, <<3, 0>>, <<3, 3>>, <<0, 3>>>>

GridShapes == {Upright, Dot, Kite, Hexagon, DupFirst}

GridRings ==
    LET open == UNION {Rotations(r) \cup Rotations(Reversed(r)) : r \in GridShapes}
    IN  Rings \cup open \cup {Repeated(r) : r \in open}

InitGrid ==
    /\ SegIdle
    /\ GDimIdle
    /\ MainIdle
    /\ pc = "ready"
    /\ ring \in GridRings
    /\ lring = <<>>
    /\ grid = NoGrid
    /\ seen_pairs = {}
    /\ intersections = <<>>
    /\ segCalls = 0
    /\ ret = [inters |-> <<>>, dur |-> 0, tested |-> 0]
    /\ log = <<>>

NextGrid == Analyze

SpecGrid == InitGrid /\ [][NextGrid]_vars

---------------------------------------------------------------------------
(* Specification SpecSegWide: seg_intersect applied to every 4-tuple of     *)
(* points whose coordinates are within MaxWideOffset of 0 or of Wide, the   *)
(* least integer whose square exceeds 2^53, so that products of line 32     *)
(* are rounded.                                                             *)

Wide == 94906267
MaxWideOffset == 1

WideCoords == (0..MaxWideOffset) \cup {Wide + d : d \in 0..MaxWideOffset}
WidePoints == WideCoords \X WideCoords

InitSegWide ==
    /\ segArgs \in WidePoints \X WidePoints \X WidePoints \X WidePoints
    /\ segPc = "call"
    /\ segRet = FALSE
    /\ InitRingIdle
    /\ MainIdle
    /\ GDimIdle

SpecSegWide == InitSegWide /\ [][NextSeg]_vars

---------------------------------------------------------------------------
(* Specification SpecSegRing: the runs of SpecSeg together with those of    *)
(* Spec, for the properties that relate seg_intersect to the rings          *)
(* deep_self_intersections reports on.                                      *)

InitSegRing == InitSeg \/ Init

NextSegRing == SegCall \/ Analyze

SpecSegRing == InitSegRing /\ [][NextSegRing]_vars

---------------------------------------------------------------------------
(* Vocabulary of the properties *)

Range(sq) == {sq[n] : n \in DOMAIN sq}

Returns == pc = "returned"

\* the number of edges of the ring after closing, and its edges
mNow == EdgeCount(lring)
edgesNow == EdgesOf(lring, mNow)

\* the pairs i < j of edge indices that are neither consecutive nor the wraparound pair
NonAdjacentPairs(m) ==
    {p \in (0..(m - 1)) \X (0..(m - 1)) :
        p[1] < p[2] /\ p[2] # p[1] + 1 /\ ~(p[1] = 0 /\ p[2] = m - 1)}

\* the consecutive pairs and the wraparound pair
AdjacentPairs(m) ==
    {p \in (0..(m - 1)) \X (0..(m - 1)) :
        p[1] < p[2] /\ (p[2] = p[1] + 1 \/ (p[1] = 0 /\ p[2] = m - 1))}

\* the unordered index pairs of a list of intersection records
ReportedPairs(inters) ==
    {IF r[1] <= r[2] THEN <<r[1], r[2]>> ELSE <<r[2], r[1]>> : r \in Range(inters)}

\* brute force: every non-adjacent pair whose edges seg_intersect accepts
BruteForce(edges, m) ==
    {p \in NonAdjacentPairs(m) :
        seg_intersect(edges[p[1]][1], edges[p[1]][2], edges[p[2]][1], edges[p[2]][2])}

\* the pairs i < j of edge indices that lie together in at least one cell of g
CoLocatedPairs(g, m) ==
    {p \in (0..(m - 1)) \X (0..(m - 1)) :
        /\ p[1] < p[2]
        /\ \E k \in DOMAIN g.cells : p[1] \in Range(g.cells[k]) /\ p[2] \in Range(g.cells[k])}

(* Ground truth for segments, independent of orient: the closed segments a-b and    *)
(* c-d have a common point iff a + (s/q)(b - a) = c + (t/q)(d - c) for some          *)
(* 0 <= s, t <= q.  For lattice points it is enough to try the denominators below:   *)
(* when the segments are not parallel the parameters of the common point of the two  *)
(* lines have the denominator |Cross| (Cramer's rule); when they are parallel and    *)
(* meet, an endpoint of one lies on the other, with one parameter 0 or 1 and the     *)
(* other a quotient by a coordinate difference of a segment.                         *)
Cross(a, b, c, d) == (b[1] - a[1]) * (d[2] - c[2]) - (b[2] - a[2]) * (d[1] - c[1])

Extent(a, b, c, d) ==
    SetMax({1, Abs(b[1] - a[1]), Abs(b[2] - a[2]), Abs(d[1] - c[1]), Abs(d[2] - c[2])})

Denominators(a, b, c, d) ==
    IF Cross(a, b, c, d) # 0 THEN {Abs(Cross(a, b, c, d))} ELSE 1..Extent(a, b, c, d)

MeetAt(a, b, c, d, q, s, t) ==
    /\ q * a[1] + s * (b[1] - a[1]) = q * c[1] + t * (d[1] - c[1])
    /\ q * a[2] + s * (b[2] - a[2]) = q * c[2] + t * (d[2] - c[2])

SharePoint(a, b, c, d) ==
    \E q \in Denominators(a, b, c, d) : \E s \in 0..q : \E t \in 0..q :
        MeetAt(a, b, c, d, q, s, t)

\* the segments cross at a point interior to both
CrossInside(a, b, c, d) ==
    /\ Cross(a, b, c, d) # 0
    /\ LET q == Abs(Cross(a, b, c, d))
       IN  \E s \in 1..(q - 1) : \E t \in 1..(q - 1) : MeetAt(a, b, c, d, q, s, t)

\* no two non-adjacent edges of the closed ring have a common point
SimpleRing ==
    \A p \in NonAdjacentPairs(mNow) :
        ~SharePoint(edgesNow[p[1]][1], edgesNow[p[1]][2], edgesNow[p[2]][1], edgesNow[p[2]][2])

---------------------------------------------------------------------------
(* Properties *)

\* C1: for a ring with m >= 4 edges the unordered pairs reported are exactly the
\* non-adjacent pairs that seg_intersect accepts, and each of them shares a grid cell
C1_GridEqualsBruteForce ==
    (Returns /\ mNow >= 4) =>
        /\ ReportedPairs(ret.inters) = BruteForce(edgesNow, mNow)
        /\ BruteForce(edgesNow, mNow) \subseteq CoLocatedPairs(grid, mNow)

\* C1 witness: a ring with an intersecting non-adjacent pair and another non-adjacent
\* pair that the grid never proposes
C1_Witness ==
    /\ Returns /\ mNow >= 4
    /\ BruteForce(edgesNow, mNow) # {}
    /\ \E p \in NonAdjacentPairs(mNow) : p \notin CoLocatedPairs(grid, mNow)

\* C2: a ring of 3 or fewer edges returns ([], 0.0, 0), builds no grid and makes no
\* call of seg_intersect
C2_SmallRingShortCircuit ==
    (Returns /\ mNow <= 3) =>
        /\ ret = [inters |-> <<>>, dur |-> 0, tested |-> 0]
        /\ ~grid.built
        /\ segCalls = 0

\* C2 witness: a proper triangle given without its closing point
C2_Witness ==
    /\ Returns /\ Len(ring) = 3 /\ mNow = 3
    /\ orient(ring[1], ring[2], ring[3]) # 0
    /\ ret.inters = <<>>

\* C3: a simple closed ring yields no intersection record
C3_SimpleRingEmpty == (Returns /\ SimpleRing) => ret.inters = <<>>

\* C3 witness: a simple ring of at least 4 edges in whose grid consecutive edges and
\* the wraparound pair lie together in a cell
C3_Witness ==
    /\ Returns /\ mNow >= 4 /\ SimpleRing
    /\ <<0, 1>> \in CoLocatedPairs(grid, mNow)
    /\ <<0, mNow - 1>> \in CoLocatedPairs(grid, mNow)
    /\ ret.inters = <<>>

\* C4: the figure-eight yields exactly one record, for edges 0 and 2 with their endpoints
C4_FigureEight ==
    (Returns /\ ring = FigureEight) =>
        ret.inters = << <<0, 2, <<0, 0>>, <<2, 2>>, <<0, 2>>, <<2, 0>>>> >>

\* C4 witness: the figure-eight analysed, its crossing pair lying in several cells
C4_Witness ==
    /\ Returns /\ ring = FigureEight
    /\ Cardinality({k \in DOMAIN grid.cells : {0, 2} \subseteq Range(grid.cells[k])}) > 1

\* C5: the bowtie yields at least one record, and every record is for two
\* non-adjacent edges, carries their endpoints, and those edges cross
C5_Bowtie ==
    (Returns /\ ring = Bowtie) =>
        /\ Len(ret.inters) >= 1
        /\ \A r \in Range(ret.inters) :
              /\ <<r[1], r[2]>> \in NonAdjacentPairs(mNow)
              /\ <<r[3], r[4]>> = edgesNow[r[1]]
              /\ <<r[5], r[6]>> = edgesNow[r[2]]
              /\ CrossInside(r[3], r[4], r[5], r[6])

\* C5 witness: the bowtie analysed, with adjacent edges lying together in a cell
C5_Witness ==
    /\ Returns /\ ring = Bowtie
    /\ ret.inters # <<>>
    /\ AdjacentPairs(mNow) \cap CoLocatedPairs(grid, mNow) # {}

\* C6: the square yields no record, and its tested-pair count counts no adjacent pair,
\* so it is at most 2
C6_Square ==
    (Returns /\ ring = Square) =>
        /\ ret.inters = <<>>
        /\ ret.tested <= 2
        /\ ret.tested = Cardinality(seen_pairs)
        /\ seen_pairs \subseteq NonAdjacentPairs(mNow)

\* C6 witness: the square analysed, every adjacent pair lying together in some cell
C6_Witness ==
    /\ Returns /\ ring = Square
    /\ AdjacentPairs(mNow) \subseteq CoLocatedPairs(grid, mNow)

\* C7 as stated: the tested-pair count is the number of distinct pairs lying together
\* in a cell, adjacent pairs included
C7_CountBeforeAdjacency ==
    (Returns /\ mNow >= 4) => ret.tested = Cardinality(CoLocatedPairs(grid, mNow))

\* C7 amended: the tested-pair count is the number of distinct NON-ADJACENT pairs lying
\* together in a cell (counted after deduplication and after the adjacency filter)
C7_CountAfterAdjacency ==
    (Returns /\ mNow >= 4) =>
        ret.tested = Cardinality(CoLocatedPairs(grid, mNow) \cap NonAdjacentPairs(mNow))

\* C7 witness: a call that tested a pair which did not intersect, while adjacent pairs
\* lay together in cells
C7_Witness ==
    /\ Returns /\ mNow >= 4
    /\ ret.tested > Len(ret.inters)
    /\ AdjacentPairs(mNow) \cap CoLocatedPairs(grid, mNow) # {}

C9_SegIntersectIffCommonPoint ==
    segPc = "returned" =>
        (segRet <=> SharePoint(segArgs[1], segArgs[2], segArgs[3], segArgs[4]))

\* C9 witness: two collinear, disjoint segments of positive length, rejected
C9_Witness ==
    /\ segPc = "returned" /\ ~segRet
    /\ segArgs[1] # segArgs[2] /\ segArgs[3] # segArgs[4]
    /\ orient(segArgs[1], segArgs[2], segArgs[3]) = 0
    /\ orient(segArgs[1], segArgs[2], segArgs[4]) = 0

\* the records and the tested-pair count of a call on r
ResultOn(r) ==
    LET res == Returned(Activation(r, NewSeenPairs, NewIntersections), 0)
    IN  <<res.inters, res.tested>>

\* C10: a ring given without its closing point returns the records and the count of the
\* same ring given with it, and a ring whose ends are equal is not extended
C10_ClosingNormalized ==
    Returns =>
        /\ ring[1] # ring[Len(ring)] => <<ret.inters, ret.tested>> = ResultOn(Repeated(ring))
        /\ ring[1] = ring[Len(ring)] => lring = ring

\* C10 witness: an unclosed ring of 4 edges with an intersection
C10_Witness ==
    /\ Returns /\ ring[1] # ring[Len(ring)]
    /\ mNow >= 4 /\ ret.inters # <<>>


---------------------------------------------------------------------------
(* Properties of main *)

Exited == mpc = "exited"

\* the closed ring r has two non-adjacent edges with a common point
SelfIntersecting(r) ==
    LET c == IF r[1] # r[Len(r)] THEN r \o <<r[1]>> ELSE r
        m == Len(c) - 1
    IN  \E p \in NonAdjacentPairs(m) :
            SharePoint(c[p[1] + 1], c[p[1] + 2], c[p[2] + 1], c[p[2] + 2])

\* every ring of every polygon of the geometry geom
RingsOfGeometry(geom) ==
    IF geom.gtype = "Polygon" THEN Range(geom.coordinates)
    ELSE IF geom.gtype = "MultiPolygon"
    THEN UNION {Range(geom.coordinates[n]) : n \in DOMAIN geom.coordinates}
    ELSE {}

\* every ring of every polygon of every feature of the file f
RingsOfInput(f) == UNION {RingsOfGeometry(f.features[n]) : n \in DOMAIN f.features}

\* main went through its loops: the file exists and its first feature is a Polygon or
\* a MultiPolygon
Analysed == file.exists /\ file.features # <<>> /\ Supported(file.features[1].gtype)

\* C12: when main exits after its analysis, the status is 1 if some ring of some
\* feature of the input is self-intersecting, and 0 otherwise
C12_ExitOneIffAnyRingOfInput ==
    (Exited /\ Analysed) =>
        exitCode = (IF \E r \in RingsOfInput(file) : SelfIntersecting(r) THEN 1 ELSE 0)


\* the geometry main reads, when the file exists and has features
HasGeometry == file.exists /\ file.features # <<>>
gtypeRead == file.features[1].gtype
coordinatesRead == file.features[1].coordinates

\* C13: when the type of the geometry read is neither Polygon nor MultiPolygon (a
\* missing type included) main leaves its start only by exiting with status 2 and
\* deep_self_intersections is never called; for a Polygon polys is the one-element
\* list of its coordinates, for a MultiPolygon polys is its coordinates
C13_GeometryTypes ==
    (HasGeometry /\ mpc # "start") =>
        /\ gtypeRead \notin {"Polygon", "MultiPolygon"} =>
               Exited /\ exitCode = 2 /\ log = <<>> /\ visited = <<>> /\ pc = "idle"
        /\ gtypeRead = "Polygon" => polys = <<coordinatesRead>>
        /\ gtypeRead = "MultiPolygon" => polys = coordinatesRead

\* C13 witness: main has exited with status 2 on a geometry without a type, having
\* made no call
C13_Witness ==
    /\ HasGeometry /\ gtypeRead = "none"
    /\ Exited /\ exitCode = 2 /\ log = <<>>


\* the <<pi, ri>> of the rings of polys
RingPositions ==
    {q \in (0..(Len(polys) - 1)) \X (0..(MaxRingsPerPoly - 1)) :
        q[2] < Len(polys[q[1] + 1])}

\* polygon-then-ring order
Before(q1, q2) == q1[1] < q2[1] \/ (q1[1] = q2[1] /\ q1[2] < q2[2])

\* the calls made so far are those of the iterations made so far, each on its ring and
\* with the result the ring has on its own; the iterations made are an initial part of
\* the rings in polygon-then-ring order; main has exited only after the last ring
RingByRing ==
    mpc \in {"loop", "exited"} =>
        /\ Len(log) = Len(visited)
        /\ \A n \in 1..Len(visited) :
               /\ visited[n] \in RingPositions
               /\ log[n].ring = polys[visited[n][1] + 1][visited[n][2] + 1]
               /\ <<log[n].inters, log[n].tested>> = ResultOn(log[n].ring)
               /\ \A q \in RingPositions : Before(q, visited[n]) =>
                      \E k \in 1..(n - 1) : visited[k] = q
               /\ \A k \in 1..(n - 1) : Before(visited[k], visited[n])
        /\ (Exited /\ Analysed) => \A q \in RingPositions : \E n \in 1..Len(visited) : visited[n] = q

\* C14: main passes every ring of every polygon to deep_self_intersections exactly
\* once, in polygon-then-ring order, each call giving the result of its ring alone; an
\* intersection found does not stop the later rings; main exits only after the last
\* ring; any_intersections, once set, stays set
C14_RingByRing ==
    /\ []RingByRing
    /\ [][any_intersections => any_intersections']_vars
    /\ [][Exited => UNCHANGED <<visited, log>>]_vars

\* C14 witness: main has exited after three rings in two polygons, the first of which
\* was found self-intersecting and the last of which was not
C14_Witness ==
    /\ Exited /\ exitCode = 1
    /\ visited = <<<<0, 0>>, <<0, 1>>, <<1, 0>>>>
    /\ log[1].inters # <<>> /\ log[3].inters = <<>>


---------------------------------------------------------------------------
(* Properties of seg_intersect and on_seg *)

SegReturned == segPc = "returned"

\* the four orientations seg_intersect computes for its arguments
o1Now == orient(segArgs[1], segArgs[2], segArgs[3])
o2Now == orient(segArgs[1], segArgs[2], segArgs[4])
o3Now == orient(segArgs[3], segArgs[4], segArgs[1])
o4Now == orient(segArgs[3], segArgs[4], segArgs[2])

FirstTestNow == ProperCross(o1Now, o2Now, o3Now, o4Now)
FallbacksNow ==
    Fallbacks(segArgs[1], segArgs[2], segArgs[3], segArgs[4], o1Now, o2Now, o3Now, o4Now)

StrictlyOpposite(x, y) == (x > 0 /\ y < 0) \/ (x < 0 /\ y > 0)
OnePositive(x, y) == (x > 0 /\ y <= 0) \/ (x <= 0 /\ y > 0)
SomeZero == o1Now = 0 \/ o2Now = 0 \/ o3Now = 0 \/ o4Now = 0

\* C15 as stated: the first test succeeds only when o1, o2 have strictly opposite
\* signs and o3, o4 have strictly opposite signs, and it does not succeed when one of
\* o1..o4 is zero
C15_FirstTestOnlyStrict ==
    SegReturned =>
        /\ FirstTestNow => StrictlyOpposite(o1Now, o2Now) /\ StrictlyOpposite(o3Now, o4Now)
        /\ SomeZero => ~FirstTestNow

\* C15: the first test succeeds whenever o1, o2 have strictly opposite signs and o3,
\* o4 have strictly opposite signs, and only then when none of o1..o4 is zero; when it
\* succeeds it is because exactly one of o1, o2 and exactly one of o3, o4 is positive;
\* whenever one of o1..o4 is zero the value returned is that of the four fallback
\* checks, whether the first test succeeded or not
C15_FirstTest ==
    SegReturned =>
        /\ (StrictlyOpposite(o1Now, o2Now) /\ StrictlyOpposite(o3Now, o4Now)) => FirstTestNow
        /\ (FirstTestNow /\ ~SomeZero) =>
               StrictlyOpposite(o1Now, o2Now) /\ StrictlyOpposite(o3Now, o4Now)
        /\ FirstTestNow =>
               /\ OnePositive(o1Now, o2Now)
               /\ OnePositive(o3Now, o4Now)
               /\ segRet
        /\ SomeZero => segRet = FallbacksNow

\* C15 witness: c lies inside a-b and d off its line, so that o1 is zero, and the
\* first test has succeeded
C15_Witness ==
    /\ SegReturned /\ segRet
    /\ o1Now = 0 /\ o2Now > 0 /\ StrictlyOpposite(o3Now, o4Now)
    /\ FirstTestNow


\* ground truth: the point p lies on the closed segment a-b
OnSegment(a, b, p) == SharePoint(a, b, p, p)

\* one of the four sub-cases: an endpoint of one segment lies on the other segment
\* (the orientation of that endpoint is then zero)
SubCases(a, b, c, d) ==
    \/ orient(a, b, c) = 0 /\ OnSegment(a, b, c)
    \/ orient(a, b, d) = 0 /\ OnSegment(a, b, d)
    \/ orient(c, d, a) = 0 /\ OnSegment(c, d, a)
    \/ orient(c, d, b) = 0 /\ OnSegment(c, d, b)

\* the four points lie on one line and the segments have a common point
CollinearOverlap(a, b, c, d) ==
    /\ orient(a, b, c) = 0 /\ orient(a, b, d) = 0
    /\ orient(c, d, a) = 0 /\ orient(c, d, b) = 0
    /\ SharePoint(a, b, c, d)

\* C16: when the first test of seg_intersect does not succeed, the value returned is
\* true exactly when one of the four sub-cases holds; and after
\* deep_self_intersections returns on a ring of m >= 4 edges, every pair of
\* non-adjacent edges of which one has an endpoint on the other, or which are collinear
\* and overlap, is among the records
C16_TouchingCases ==
    /\ (SegReturned /\ ~FirstTestNow) =>
           (segRet <=> SubCases(segArgs[1], segArgs[2], segArgs[3], segArgs[4]))
    /\ (Returns /\ mNow >= 4) =>
           \A p \in NonAdjacentPairs(mNow) :
               LET a == edgesNow[p[1]][1]
                   b == edgesNow[p[1]][2]
                   c == edgesNow[p[2]][1]
                   d == edgesNow[p[2]][2]
               IN  (SubCases(a, b, c, d) \/ CollinearOverlap(a, b, c, d)) =>
                       p \in ReportedPairs(ret.inters)

\* C16 witness: a ring with a vertex on a non-adjacent edge whose two edges do not
\* pass the first test has returned with that pair among its records
C16_Witness ==
    /\ Returns /\ mNow >= 4
    /\ \E p \in NonAdjacentPairs(mNow) :
           LET a == edgesNow[p[1]][1]
               b == edgesNow[p[1]][2]
               c == edgesNow[p[2]][1]
               d == edgesNow[p[2]][2]
           IN  /\ ~ProperCross(orient(a, b, c), orient(a, b, d), orient(c, d, a),
                               orient(c, d, b))
               /\ OnSegment(a, b, c) /\ ~CollinearOverlap(a, b, c, d)
               /\ p \in ReportedPairs(ret.inters)


\* within the inclusive bounding box of a-b
InBox(a, b, p) ==
    /\ Min2(a[1], b[1]) <= p[1] /\ p[1] <= Max2(a[1], b[1])
    /\ Min2(a[2], b[2]) <= p[2] /\ p[2] <= Max2(a[2], b[2])

\* the cross product of b - a and p - a, written out
Collinear(a, b, p) == (b[1] - a[1]) * (p[2] - a[2]) = (b[2] - a[2]) * (p[1] - a[1])

\* C17: on_seg(a, b, p) is true exactly when p is collinear with a-b and inside the
\* inclusive bounding box of a and b, which is exactly when p lies on the closed
\* segment; it is true of both endpoints, and when a = b only of p = a.  Checked on
\* a = segArgs[1], b = segArgs[2] and each p of segArgs
C17_OnSeg ==
    SegReturned =>
        LET a == segArgs[1]
            b == segArgs[2]
        IN  /\ \A n \in 1..4 :
                   LET p == segArgs[n]
                   IN  /\ on_seg(a, b, p) <=> (Collinear(a, b, p) /\ InBox(a, b, p))
                       /\ on_seg(a, b, p) <=> OnSegment(a, b, p)
                       /\ a = b => (on_seg(a, b, p) <=> p = a)
            /\ on_seg(a, b, a) /\ on_seg(a, b, b)

\* C17 witness: p = segArgs[3] is collinear with a-b but outside its bounding box, and
\* on_seg rejects it; segArgs[4] lies strictly inside a-b and on_seg accepts it
C17_Witness ==
    /\ SegReturned
    /\ segArgs[1] # segArgs[2]
    /\ Collinear(segArgs[1], segArgs[2], segArgs[3])
    /\ ~InBox(segArgs[1], segArgs[2], segArgs[3])
    /\ ~on_seg(segArgs[1], segArgs[2], segArgs[3])
    /\ segArgs[4] \notin {segArgs[1], segArgs[2]}
    /\ on_seg(segArgs[1], segArgs[2], segArgs[4])


---------------------------------------------------------------------------
(* Properties of the pair loop *)

\* C18: after a call on a ring of m >= 4 edges, a co-located pair i < j has been
\* passed to seg_intersect exactly when it is neither j = i + 1 nor (0, m - 1), and
\* no record has j = i + 1 or (i, j) = (0, m - 1), in either order of its indices
C18_AdjacencyExclusion ==
    (Returns /\ mNow >= 4) =>
        /\ \A p \in CoLocatedPairs(grid, mNow) :
               p \in seen_pairs <=> ~(p[2] = p[1] + 1 \/ (p[1] = 0 /\ p[2] = mNow - 1))
        /\ seen_pairs \subseteq CoLocatedPairs(grid, mNow)
        /\ \A n \in 1..Len(ret.inters) :
               LET i == ret.inters[n][1]
                   j == ret.inters[n][2]
               IN  /\ j # i + 1 /\ i # j + 1
                   /\ <<i, j>> # <<0, mNow - 1>> /\ <<i, j>> # <<mNow - 1, 0>>

\* C18 witness: the edges 0, 1 and the edges 0, m - 1 share a cell and were skipped,
\* while edges two apart share a cell, were tested and are reported
C18_Witness ==
    /\ Returns /\ mNow >= 5
    /\ {<<0, 1>>, <<0, mNow - 1>>, <<0, 2>>} \subseteq CoLocatedPairs(grid, mNow)
    /\ <<0, 1>> \notin seen_pairs /\ <<0, mNow - 1>> \notin seen_pairs
    /\ <<0, 2>> \in seen_pairs
    /\ <<0, 2>> \in ReportedPairs(ret.inters)

\* the number of cells of g in which the edges p[1] and p[2] both lie
SharedCells(g, p) ==
    Cardinality({k \in DOMAIN g.cells :
                    p[1] \in Range(g.cells[k]) /\ p[2] \in Range(g.cells[k])})

\* C19: in one call no unordered pair of edges is passed to seg_intersect twice (the
\* number of invocations is the number of distinct pairs tested), and no two records
\* have the same unordered pair of indices
C19_GlobalDedup ==
    Returns =>
        /\ segCalls = Cardinality(seen_pairs)
        /\ \A n1, n2 \in 1..Len(ret.inters) :
               KeyPair(ret.inters[n1][1], ret.inters[n1][2])
                   = KeyPair(ret.inters[n2][1], ret.inters[n2][2]) => n1 = n2

\* C19 witness: two intersecting edges that lie together in several cells were tested
\* and are reported once
C19_Witness ==
    /\ Returns /\ mNow >= 4
    /\ \E p \in seen_pairs :
           /\ SharedCells(grid, p) >= 2
           /\ p \in ReportedPairs(ret.inters)
    /\ segCalls = Cardinality(seen_pairs)


---------------------------------------------------------------------------
(* Properties of the grid resolution *)

\* C20: for m >= 4 the gdim computed is between 16 and 256; it is 16 for m < 289, the
\* integer s with s * s <= m < (s + 1) * (s + 1) for 289 <= m < 65536, and 256 for
\* m >= 65536; in all cases it is max(16, min(256, s)) for that integer s
C20_GridResolution ==
    (gdimPc = "returned" /\ gdimM >= 4) =>
        /\ 16 <= gdimRet /\ gdimRet <= 256
        /\ gdimM < 289 => gdimRet = 16
        /\ (289 <= gdimM /\ gdimM < 65536) =>
               gdimRet * gdimRet <= gdimM /\ gdimM < (gdimRet + 1) * (gdimRet + 1)
        /\ gdimM >= 65536 => gdimRet = 256
        /\ \E s \in 2..257 :
               /\ s * s <= gdimM /\ gdimM < (s + 1) * (s + 1)
               /\ gdimRet = (IF s < 16 THEN 16 ELSE IF s > 256 THEN 256 ELSE s)

\* C20 witness: gdim has been computed for an m between 289 and 65536 that is not a
\* square, and lies strictly between 16 and 256
C20_Witness ==
    /\ gdimPc = "returned"
    /\ 289 < gdimM /\ gdimM < 65536
    /\ 16 < gdimRet /\ gdimRet < 256
    /\ gdimRet * gdimRet < gdimM


---------------------------------------------------------------------------
(* Properties of the grid *)

gdimNow == GDim(mNow)
boxNow == BBox(edgesNow)

\* the cell index of the coordinate v on an axis that runs from lo to hi: the cell
\* c of 0..gdim-1 with c * (hi - lo) / gdim <= v - lo < (c + 1) * (hi - lo) / gdim,
\* the last cell taking the upper boundary too; 0 when hi = lo
CellOf(v, lo, hi, gdim) ==
    IF hi = lo THEN 0
    ELSE CHOOSE c \in 0..(gdim - 1) :
             /\ c * (hi - lo) <= gdim * (v - lo)
             /\ c = gdim - 1 \/ (c + 1) * (hi - lo) > gdim * (v - lo)

\* the cells overlapped by the bounding box of edge i
BoxCells(i) ==
    LET a == edgesNow[i][1]
        b == edgesNow[i][2]
        ix0 == CellOf(Min2(a[1], b[1]), boxNow.minx, boxNow.maxx, gdimNow)
        ix1 == CellOf(Max2(a[1], b[1]), boxNow.minx, boxNow.maxx, gdimNow)
        iy0 == CellOf(Min2(a[2], b[2]), boxNow.miny, boxNow.maxy, gdimNow)
        iy1 == CellOf(Max2(a[2], b[2]), boxNow.miny, boxNow.maxy, gdimNow)
    IN  (ix0..ix1) \X (iy0..iy1)

\* the cells in whose list the edge i appears
CellsWith(i) == {k \in DOMAIN grid.cells : i \in Range(grid.cells[k])}

\* C21: after a call on a ring of m >= 4 edges, each edge is in the lists of exactly
\* the cells its bounding box overlaps, which are at least one; every key (ix, iy) has
\* 0 <= ix, iy <= gdim - 1; no list holds an index twice; the keys are those of the
\* non-empty lists, each once
C21_GridInsertion ==
    (Returns /\ mNow >= 4) =>
        /\ grid.built
        /\ \A i \in 0..(mNow - 1) : CellsWith(i) = BoxCells(i) /\ CellsWith(i) # {}
        /\ \A k \in DOMAIN grid.cells :
               /\ k[1] \in 0..(gdimNow - 1) /\ k[2] \in 0..(gdimNow - 1)
               /\ grid.cells[k] # <<>>
               /\ \A n1, n2 \in 1..Len(grid.cells[k]) :
                      grid.cells[k][n1] = grid.cells[k][n2] => n1 = n2
        /\ Range(grid.keys) = DOMAIN grid.cells
        /\ Len(grid.keys) = Cardinality(DOMAIN grid.cells)

\* C21 witness: an edge from the least to the greatest corner of the bounding box lies
\* in all gdim * gdim cells, the cell of the greatest corner being (gdim - 1, gdim - 1)
C21_Witness ==
    /\ Returns /\ mNow >= 4
    /\ \E i \in 0..(mNow - 1) :
           /\ edgesNow[i][1] = <<boxNow.minx, boxNow.miny>>
           /\ edgesNow[i][2] = <<boxNow.maxx, boxNow.maxy>>
           /\ Cardinality(CellsWith(i)) = gdimNow * gdimNow
           /\ <<gdimNow - 1, gdimNow - 1>> \in CellsWith(i)
           /\ <<0, gdimNow - 1>> \in CellsWith(i)


\* the non-adjacent pairs of edges of the closed ring that have a common point
TouchingPairs ==
    {p \in NonAdjacentPairs(mNow) :
        SharePoint(edgesNow[p[1]][1], edgesNow[p[1]][2], edgesNow[p[2]][1], edgesNow[p[2]][2])}

FlatInX == boxNow.minx = boxNow.maxx
FlatInY == boxNow.miny = boxNow.maxy

\* C22: after a call on a ring of m >= 4 edges whose points share their x (their y),
\* the grid is built, every key has ix = 0 (iy = 0), and the records are those of the
\* non-adjacent pairs of edges that have a common point, one record each
C22_DegenerateBox ==
    (Returns /\ mNow >= 4 /\ (FlatInX \/ FlatInY)) =>
        /\ grid.built /\ DOMAIN grid.cells # {}
        /\ FlatInX => \A k \in DOMAIN grid.cells : k[1] = 0
        /\ FlatInY => \A k \in DOMAIN grid.cells : k[2] = 0
        /\ ReportedPairs(ret.inters) = TouchingPairs
        /\ Len(ret.inters) = Cardinality(TouchingPairs)

\* C22 witness: a ring on a horizontal line whose non-adjacent edges all overlap has
\* returned with every such pair among its records
C22_Witness ==
    /\ Returns /\ mNow >= 4
    /\ FlatInY /\ ~FlatInX
    /\ NonAdjacentPairs(mNow) # {}
    /\ ReportedPairs(ret.inters) = NonAdjacentPairs(mNow)


\* C24: after a call on a ring of m >= 4 edges every cell's list is strictly
\* ascending, so that the pairs (i, j) the loops draw from it have i < j (never j = i,
\* never i = j + 1) and the wraparound pair is met as (0, m - 1); every record
\* (i, j, a, b, c, d) has 0 <= i < j <= m - 1, (a, b) = edges[i] and (c, d) = edges[j]
C24_AscendingLists ==
    (Returns /\ mNow >= 4) =>
        /\ \A k \in DOMAIN grid.cells :
               \A n1, n2 \in 1..Len(grid.cells[k]) :
                   n1 < n2 =>
                       LET i == grid.cells[k][n1]
                           j == grid.cells[k][n2]
                       IN  /\ i < j /\ j # i /\ i # j + 1
                           /\ {i, j} = {0, mNow - 1} => (i = 0 /\ j = mNow - 1)
        /\ \A n \in 1..Len(ret.inters) :
               LET rec == ret.inters[n]
               IN  /\ 0 <= rec[1] /\ rec[1] < rec[2] /\ rec[2] <= mNow - 1
                   /\ <<rec[3], rec[4]>> = edgesNow[rec[1]]
                   /\ <<rec[5], rec[6]>> = edgesNow[rec[2]]

\* C24 witness: a cell lists at least three edges, the first and the last edge of the
\* ring among them, and a record has been returned
C24_Witness ==
    /\ Returns /\ mNow >= 4
    /\ ret.inters # <<>>
    /\ \E k \in DOMAIN grid.cells :
           /\ Len(grid.cells[k]) >= 3
           /\ grid.cells[k][1] = 0
           /\ grid.cells[k][Len(grid.cells[k])] = mNow - 1


\* C25: after a call on a ring of m >= 4 edges the number of invocations of
\* seg_intersect is the tested-pair count returned, the number of records is at most
\* that count, and that count is at most m(m - 3)/2
C25_CallCounts ==
    (Returns /\ mNow >= 4) =>
        /\ segCalls = ret.tested
        /\ Len(ret.inters) <= ret.tested
        /\ 2 * ret.tested <= mNow * (mNow - 3)

\* C25 witness: every non-adjacent pair was tested, and some but not all of them are
\* among the records
C25_Witness ==
    /\ Returns /\ mNow >= 4
    /\ 2 * ret.tested = mNow * (mNow - 3)
    /\ 0 < Len(ret.inters) /\ Len(ret.inters) < ret.tested
    /\ segCalls = ret.tested


\* the edges of the closed ring that have no length
ZeroLengthEdges == {k \in 0..(mNow - 1) : edgesNow[k][1] = edgesNow[k][2]}

\* the edge before and the edge after edge k, indices taken cyclically, as a pair i < j
Neighbours(k) == KeyPair((k + mNow - 1) % mNow, (k + 1) % mNow)

\* C26: after a call on a ring of m >= 4 edges, for every edge k without length the
\* edges before and after it are not adjacent by index, were tested, and are among the
\* records, so that the result is not empty
C26_DuplicateVertex ==
    (Returns /\ mNow >= 4) =>
        \A k \in ZeroLengthEdges :
            /\ Neighbours(k) \in NonAdjacentPairs(mNow)
            /\ Neighbours(k) \in seen_pairs
            /\ Neighbours(k) \in ReportedPairs(ret.inters)
            /\ ret.inters # <<>>

\* C26 witness: a ring with one point given twice in a row, simple otherwise, has
\* returned with the one record of the edges around that point
C26_Witness ==
    /\ Returns /\ mNow >= 5
    /\ \E k \in ZeroLengthEdges :
           /\ ZeroLengthEdges = {k}
           /\ ReportedPairs(ret.inters) = {Neighbours(k)}
           /\ TouchingPairs = {Neighbours(k)}
           /\ Len(ret.inters) = 1


---------------------------------------------------------------------------
(* Properties of the primitives under rounding *)

\* C27: seg_intersect(a, b, c, d) = seg_intersect(c, d, a, b) = seg_intersect(b, a, c, d)
\* = seg_intersect(a, b, d, c) for the arguments of every call
C27_SegIntersectSymmetric ==
    SegReturned =>
        /\ segRet = seg_intersect(segArgs[3], segArgs[4], segArgs[1], segArgs[2])
        /\ segRet = seg_intersect(segArgs[2], segArgs[1], segArgs[3], segArgs[4])
        /\ segRet = seg_intersect(segArgs[1], segArgs[2], segArgs[4], segArgs[3])


---------------------------------------------------------------------------
(* Properties of the ring analyser under rotation and reversal *)

\* the number of records deep_self_intersections returns on r
CountOn(r) == Len(Returned(Activation(r, NewSeenPairs, NewIntersections), 0).inters)

\* C28: for a ring given without the repeated closing point, the number of records
\* returned is also the number returned on its reversal and on every cyclic rotation
\* of its point list
C28_StartAndDirection ==
    (Returns /\ ring[1] # ring[Len(ring)]) =>
        \A w \in Rotations(ring) \cup Rotations(Reversed(ring)) :
            CountOn(w) = Len(ret.inters)


---------------------------------------------------------------------------
(* Properties of main's exits *)

\* the rings of the geometry geom, in polygon-then-ring order
RECURSIVE Flatten(_)
Flatten(ps) == IF ps = <<>> THEN <<>> ELSE Head(ps) \o Flatten(Tail(ps))
RingSequence(geom) ==
    IF geom.gtype = "Polygon" THEN geom.coordinates ELSE Flatten(geom.coordinates)

\* the rings passed to deep_self_intersections so far, and whether one of the calls
\* returned a non-empty list
RingsLogged == [n \in 1..Len(log) |-> log[n].ring]
SomeNonEmpty == \E n \in 1..Len(log) : log[n].inters # <<>>

\* what holds of the two early exits: no file, status 2 and nothing read; no feature,
\* status 0 and no ring analysed
EarlyExits ==
    /\ ~file.exists => exitCode = 2 /\ log = <<>> /\ polys = <<>>
    /\ (file.exists /\ file.features = <<>>) => exitCode = 0 /\ log = <<>> /\ polys = <<>>

\* C29 as stated: after main has exited, the two early exits are as above, and in
\* every other case the rings analysed are those of the geometry of features[0] and
\* the status is 1 if a call returned a non-empty list, else 0
C29_ExitsAsStated ==
    Exited =>
        /\ EarlyExits
        /\ HasGeometry =>
               /\ RingsLogged = RingSequence(file.features[1])
               /\ exitCode = (IF SomeNonEmpty THEN 1 ELSE 0)

\* C29: after main has exited, the two early exits are as above; when the geometry of
\* features[0] is neither a Polygon nor a MultiPolygon the status is 2 and no ring was
\* analysed; in every other case the rings analysed are those of the geometry of
\* features[0] and the status is 1 if a call returned a non-empty list, else 0
C29_Exits ==
    Exited =>
        /\ EarlyExits
        /\ (HasGeometry /\ gtypeRead \notin {"Polygon", "MultiPolygon"}) =>
               exitCode = 2 /\ log = <<>>
        /\ (HasGeometry /\ gtypeRead \in {"Polygon", "MultiPolygon"}) =>
               /\ RingsLogged = RingSequence(file.features[1])
               /\ exitCode = (IF SomeNonEmpty THEN 1 ELSE 0)

\* C29 witness: main has exited with status 0 on a file whose first feature has a
\* simple ring and whose second feature has a self-intersecting one, having analysed
\* the first only
C29_Witness ==
    /\ Exited /\ exitCode = 0
    /\ Len(file.features) = 2
    /\ RingsLogged = <<Square>>
    /\ file.features[2].coordinates = <<Flat>>


---------------------------------------------------------------------------
(* Properties of orient *)

\* the product x * y without rounding
ExactProduct(x, y) == Signed((x < 0) # (y < 0), MulMag(Abs(x), Abs(y)))

\* the sign of twice the signed area of the triangle (a, b, c): 1 for a
\* counterclockwise turn, -1 for a clockwise one, 0 for collinear points
Turn(a, b, c) ==
    LET p == ExactProduct(b[1] - a[1], c[2] - a[2])
        q == ExactProduct(b[2] - a[2], c[1] - a[1])
    IN  IF p = q THEN 0
        ELSE IF p.neg # q.neg THEN (IF p.neg THEN 0 - 1 ELSE 1)
        ELSE IF MagLess(p, q) = p.neg THEN 1 ELSE 0 - 1

\* the sign of the double p
SignD(p) == IF p.h = 0 /\ p.l = 0 THEN 0 ELSE IF p.neg THEN 0 - 1 ELSE 1

\* C30: for the first three points seg_intersect was called with, orient has the sign of
\* the turn they make (positive exactly when counterclockwise, zero exactly when they
\* are collinear), is unchanged under cyclic permutation of its arguments and is negated
\* by swapping the first two
C30_OrientAlgebra ==
    SegReturned =>
        LET a == segArgs[1]
            b == segArgs[2]
            c == segArgs[3]
        IN  /\ SignD(orient_double(a, b, c)) = Turn(a, b, c)
            /\ orient_double(a, b, c) = orient_double(b, c, a)
            /\ orient_double(a, b, c) = NegD(orient_double(b, a, c))

===========================================================================
